---- MODULE Spec2Model ----
(***************************************************************************)
(* Model of bridge.py: the serial-line -> MIDI bridge.  A line of the wire *)
(* protocol is kept as the sequence of its comma-separated fields, each    *)
(* field a sequence of one-character strings, so that the regular          *)
(* expressions and int() are modelled by what they do on the characters.   *)
(***************************************************************************)
EXTENDS Integers, Sequences, FiniteSets, TLC

VARIABLES
    DEVICES,  \* the dict DEVICES: device id -> DevState
    sink,     \* the calls made on the MIDI output (by the last line, or in the round)
    last,     \* the last line taken by a reader
    open,     \* per device, the pitches left sounding by the calls so far
    thr,      \* per reader thread, its place in a handler and its locals
    round,    \* the lines taken since all readers were last between lines
    rd,       \* one reader's port, the bytes to come on it, buf, the lines dispatched
    res       \* a note token and what note_name_to_number returned for it

vars == <<DEVICES, sink, last, open, thr, round, rd, res>>

\* ------------------------------------------------------------------ config
DEADBAND_CC == 2
OCT_MIN == -24
OCT_MAX == 36
DEFAULT_VELOCITY == 96

CC_MAP ==
    [p \in {<<"C","U","T">>, <<"R","E","S","O">>, <<"P","A","N">>,
            <<"R","E","V">>, <<"D","E","L">>, <<"M","O","D">>} |->
        CASE p = <<"C","U","T">>     -> 74
          [] p = <<"R","E","S","O">> -> 71
          [] p = <<"P","A","N">>     -> 10
          [] p = <<"R","E","V">>     -> 91
          [] p = <<"D","E","L">>     -> 94
          [] p = <<"M","O","D">>     -> 1]

\* Python's None, for the optional notes and for dict.get on a missing key.
None == -1

\* ------------------------------------------------------------ characters
\* A character is a one-character string where a TLA+ string can hold it
\* (printable ASCII but the backtick, and \t, \n, \f, \r), and the name of
\* its code point otherwise: "U+0663" is ARABIC-INDIC DIGIT THREE, "U+000B"
\* the vertical tab.  A byte is written the same way when it is one of those
\* ASCII characters, and as two hexadecimal digits otherwise: "FF", "0B".
HexDigits == "0123456789ABCDEF"

HexDigitVal(h) ==
    CASE h = "0" -> 0 [] h = "1" -> 1 [] h = "2" -> 2 [] h = "3" -> 3
      [] h = "4" -> 4 [] h = "5" -> 5 [] h = "6" -> 6 [] h = "7" -> 7
      [] h = "8" -> 8 [] h = "9" -> 9 [] h = "A" -> 10 [] h = "B" -> 11
      [] h = "C" -> 12 [] h = "D" -> 13 [] h = "E" -> 14 [] h = "F" -> 15

RECURSIVE HexVal(_)
HexVal(s) ==
    IF s = "" THEN 0
    ELSE 16 * HexVal(SubSeq(s, 1, Len(s) - 1))
            + HexDigitVal(SubSeq(s, Len(s), Len(s)))

\* the characters of code points 32..126, in order
Printable ==
    << " ", "!", "\"", "#", "$", "%", "&", "'", "(", ")", "*", "+", ",",
       "-", ".", "/", "0", "1", "2", "3", "4", "5", "6", "7", "8", "9",
       ":", ";", "<", "=", ">", "?", "@", "A", "B", "C", "D", "E", "F",
       "G", "H", "I", "J", "K", "L", "M", "N", "O", "P", "Q", "R", "S",
       "T", "U", "V", "W", "X", "Y", "Z", "[", "\\", "]", "^", "_",
       "U+0060", "a", "b", "c", "d", "e", "f", "g", "h", "i", "j", "k",
       "l", "m", "n", "o", "p", "q", "r", "s", "t", "u", "v", "w", "x",
       "y", "z", "{", "|", "}", "~" >>

\* ord() of a character
Code(c) ==
    IF Len(c) > 1 THEN HexVal(SubSeq(c, 3, Len(c)))
    ELSE IF c = "\t" THEN 9
    ELSE IF c = "\n" THEN 10
    ELSE IF c = "\f" THEN 12
    ELSE IF c = "\r" THEN 13
    ELSE 31 + (CHOOSE i \in 1..95 : Printable[i] = c)

RECURSIVE Hex(_)
Hex(n) ==
    IF n = 0 THEN ""
    ELSE Hex(n \div 16) \o SubSeq(HexDigits, (n % 16) + 1, (n % 16) + 1)

\* chr() of a code point
Chr(n) ==
    IF n = 9 THEN "\t"
    ELSE IF n = 10 THEN "\n"
    ELSE IF n = 12 THEN "\f"
    ELSE IF n = 13 THEN "\r"
    ELSE IF n \in 32..126 THEN Printable[n - 31]
    ELSE LET h == Hex(n)
         IN  "U+" \o SubSeq("0000", 1, 4 - Len(h)) \o h

\* The code points of the digits zero of Unicode (category Nd): the digits
\* one to nine of each script follow its zero.  The patterns are str
\* patterns compiled without re.ASCII, so \d takes every one of them, and
\* int() gives each its value.
NdZeros ==
    { 48, 1632, 1776, 1984, 2406, 2534, 2662, 2790, 2918, 3046, 3174,
      3302, 3430, 3558, 3664, 3792, 3872, 4160, 4240, 6112, 6160, 6470,
      6608, 6784, 6800, 6992, 7088, 7232, 7248, 42528, 43216, 43264,
      43472, 43504, 43600, 44016, 65296, 66720, 68912, 69734, 69872,
      69942, 70096, 70384, 70736, 70864, 71248, 71360, 71472, 71904,
      72016, 72784, 73040, 73120, 92768, 92864, 93008, 120782, 120792,
      120802, 120812, 120822, 123200, 123632, 125264, 130032 }

\* the decimal digits of ASCII
AsciiDigits == {"0","1","2","3","4","5","6","7","8","9"}

IsDigit(c) ==
    \/ c \in AsciiDigits
    \/ /\ Len(c) > 1
       /\ LET n == Code(c)
          IN  \E z \in NdZeros : z <= n /\ n <= z + 9

DigitVal(c) ==
    IF c \in AsciiDigits THEN HexDigitVal(c)
    ELSE LET n == Code(c)
         IN  n - (CHOOSE z \in NdZeros : z <= n /\ n <= z + 9)

\* str.isspace(): the characters str.strip() and int() take off both ends
Whitespace ==
    { 9, 10, 11, 12, 13, 28, 29, 30, 31, 32, 133, 160, 5760, 8192, 8193,
      8194, 8195, 8196, 8197, 8198, 8199, 8200, 8201, 8202, 8232, 8233,
      8239, 8287, 12288 }

\* the whitespace written as one character: 32, 9, 10, 12, 13 of Whitespace
AsciiSpace == {" ", "\t", "\n", "\f", "\r"}

IsSpace(c) ==
    \/ c \in AsciiSpace
    \/ Len(c) > 1 /\ Code(c) \in Whitespace

\* str.strip("\r").strip(): no whitespace left at either end
RECURSIVE strip(_)
strip(text) ==
    IF text = <<>> THEN text
    ELSE IF IsSpace(Head(text)) THEN strip(Tail(text))
    ELSE IF IsSpace(text[Len(text)])
         THEN strip(SubSeq(text, 1, Len(text) - 1))
    ELSE text

Min(a, b) == IF a < b THEN a ELSE b
Max(a, b) == IF a > b THEN a ELSE b

\* \d{lo,hi}
Digits(s, lo, hi) ==
    /\ Len(s) >= lo
    /\ Len(s) <= hi
    /\ \A i \in 1..Len(s) : IsDigit(s[i])

\* int() takes the whitespace of str.strip() off both ends, but for the four
\* separators U+001C..U+001F, which it leaves in place
IsIntSpace(c) == IsSpace(c) /\ (Len(c) = 1 \/ Code(c) \notin 28..31)

RECURSIVE int_strip(_)
int_strip(s) ==
    IF s = <<>> THEN s
    ELSE IF IsIntSpace(Head(s)) THEN int_strip(Tail(s))
    ELSE IF IsIntSpace(s[Len(s)]) THEN int_strip(SubSeq(s, 1, Len(s) - 1))
    ELSE s

\* sys.int_info.default_max_str_digits: int() raises ValueError on a string
\* of more digits than this
MaxStrDigits == 4300

\* An int has no widest value.  A number beyond IntCap is held as IntCap:
\* bridge.py brings every number it reads from a line into 0..127 (or into
\* OCT_MIN..OCT_MAX) before it uses it, and 12 * (IntCap + 1) + 12 is
\* beyond both, as the number itself is.
IntCap == 100000000

\* the value of a few digits
RECURSIVE Horner(_)
Horner(d) ==
    IF d = <<>> THEN 0
    ELSE 10 * Horner(SubSeq(d, 1, Len(d) - 1)) + DigitVal(d[Len(d)])

\* the value of digits, with the underscores int() allows between them: a
\* number with a digit other than 0 before its last 9 digits is beyond IntCap
ParseNat(s) ==
    LET d == SelectSeq(s, LAMBDA c : c # "_")
        n == Len(d)
    IN  IF \E i \in 1..(n - 9) : DigitVal(d[i]) # 0 THEN IntCap
        ELSE Min(IntCap, Horner(SubSeq(d, Max(1, n - 8), n)))

\* the strings int() takes: whitespace at both ends, a sign, then at most
\* MaxStrDigits digits with single underscores between them; on any other
\* string int() raises ValueError
IsInt(s) ==
    LET t == int_strip(s)
        d == IF t # <<>> /\ t[1] \in {"+", "-"} THEN Tail(t) ELSE t
    IN  /\ Len(d) >= 1
        /\ \A i \in 1..Len(d) :
              \/ IsDigit(d[i])
              \/ /\ d[i] = "_"
                 /\ i > 1 /\ IsDigit(d[i - 1])
                 /\ i < Len(d) /\ IsDigit(d[i + 1])
        /\ Cardinality({i \in 1..Len(d) : d[i] # "_"}) <= MaxStrDigits

int(s) ==
    LET t == int_strip(s)
    IN  IF t[1] = "-" THEN 0 - ParseNat(Tail(t))
        ELSE IF t[1] = "+" THEN ParseNat(Tail(t))
        ELSE ParseNat(t)

\* ----------------------------------------------------------------- regex
NUM_0_127(s) ==
    \/ Len(s) = 3 /\ s[1] = "1" /\ s[2] = "2" /\ s[3] \in {"0","1","2","3","4","5","6","7"}
    \/ Len(s) = 3 /\ s[1] = "1" /\ s[2] \in {"0","1"} /\ IsDigit(s[3])
    \/ Digits(s, 1, 2)

DEV(s) == Digits(s, 1, 3)

Letters == {"A","B","C","D","E","F","G","a","b","c","d","e","f","g"}

\* the three groups of ([A-Ga-g])([#b]?)(-?\d+); matched is FALSE on no match
NoteGroups(s) ==
    LET hasAcc == Len(s) >= 2 /\ s[2] \in {"#", "b"}
        rest   == IF hasAcc THEN SubSeq(s, 3, Len(s)) ELSE SubSeq(s, 2, Len(s))
        digs   == IF rest # <<>> /\ rest[1] = "-" THEN Tail(rest) ELSE rest
    IN  [matched |-> /\ Len(s) >= 1
                     /\ s[1] \in Letters
                     /\ Digits(digs, 1, Len(s)),
         letter  |-> IF Len(s) >= 1 THEN s[1] ELSE "",
         acc     |-> IF hasAcc THEN s[2] ELSE "",
         octv    |-> rest]

NOTE_NAME(s) == NoteGroups(s).matched

NOTE_ANY(s) == NOTE_NAME(s) \/ NUM_0_127(s)

F_B     == <<"B">>
F_P     == <<"P">>
F_V     == <<"V">>
F_E     == <<"E">>
F_NH    == <<"N","H">>
F_VH    == <<"V","H">>
F_SUS   == <<"S","U","S">>
F_OCT   == <<"O","C","T">>
F_PANIC == <<"P","A","N","I","C">>
F_0     == <<"0">>
F_1     == <<"1">>

\* What the patterns match of a line: $ matches at the end of the line and
\* before a newline that ends it, so that newline is in no group.
Dollar(line) ==
    LET n == Len(line)
    IN  IF n >= 1 /\ line[n] # <<>> /\ line[n][Len(line[n])] = "\n"
        THEN [line EXCEPT ![n] = SubSeq(@, 1, Len(@) - 1)]
        ELSE line

RE_B_NH(line) ==
    Len(line) = 4 /\ line[1] = F_B /\ DEV(line[2]) /\ line[3] = F_NH
                  /\ Dollar(line)[4] \in {F_0, F_1}

RE_B_VH(line) ==
    Len(line) = 4 /\ line[1] = F_B /\ DEV(line[2]) /\ line[3] = F_VH
                  /\ Dollar(line)[4] \in {F_0, F_1}

RE_B_SUS(line) ==
    Len(line) = 4 /\ line[1] = F_B /\ DEV(line[2]) /\ line[3] = F_SUS
                  /\ Dollar(line)[4] \in {F_0, F_1}

RE_B_OCT(line) ==
    Len(line) = 4 /\ line[1] = F_B /\ DEV(line[2]) /\ line[3] = F_OCT
                  /\ LET delta == Dollar(line)[4]
                     IN  /\ Len(delta) >= 1
                         /\ IF delta[1] \in {"+", "-"}
                            THEN Digits(Tail(delta), 1, 2)
                            ELSE Digits(delta, 1, 2)

RE_B_PAN(line) ==
    Len(line) = 4 /\ line[1] = F_B /\ DEV(line[2]) /\ line[3] = F_PANIC
                  /\ Dollar(line)[4] = F_1

RE_P(line) ==
    Len(line) = 3 /\ line[1] = F_P /\ DEV(line[2])
                  /\ NOTE_ANY(Dollar(line)[3])

RE_V(line) ==
    Len(line) = 3 /\ line[1] = F_V /\ DEV(line[2])
                  /\ NUM_0_127(Dollar(line)[3])

RE_E(line) ==
    Len(line) = 4 /\ line[1] = F_E /\ DEV(line[2])
                  /\ line[3] \in DOMAIN CC_MAP
                  /\ NUM_0_127(Dollar(line)[4])

\* -------------------------------------------------------------- MIDI out

\* midi_note_on passing the velocity on as it is
midi_note_on_RawVelocity(note, vel) ==
    [op |-> "note_on", a |-> Max(0, Min(127, note)), b |-> vel]

midi_note_on(note, vel) ==
    [op |-> "note_on", a |-> Max(0, Min(127, note)), b |-> Max(1, Min(127, vel))]

midi_note_off(note) ==
    [op |-> "note_off", a |-> Max(0, Min(127, note)), b |-> 0]

midi_cc(cc, val) ==
    [op |-> "cc", a |-> cc % 128, b |-> Max(0, Min(127, val))]

\* ------------------------------------------------------------- utilities
NOTE_BASE ==
    [l \in {"C","D","E","F","G","A","B"} |->
        CASE l = "C" -> 0 [] l = "D" -> 2 [] l = "E" -> 4 [] l = "F" -> 5
          [] l = "G" -> 7 [] l = "A" -> 9 [] l = "B" -> 11]

upper(c) ==
    CASE c = "a" -> "A" [] c = "b" -> "B" [] c = "c" -> "C" [] c = "d" -> "D"
      [] c = "e" -> "E" [] c = "f" -> "F" [] c = "g" -> "G" [] OTHER -> c

\* what a call gives that raised ValueError instead of returning
ValueError == -2

\* int(octv) is outside the try: a name whose octave int() does not take
\* raises; a token that is no name and that int() does not take gives 60
note_name_to_number(name) ==
    LET m == NoteGroups(name)
    IN  IF m.matched
        THEN IF IsInt(m.octv)
             THEN LET pc0 == NOTE_BASE[upper(m.letter)]
                      pc  == IF m.acc = "#" THEN pc0 + 1
                             ELSE IF m.acc = "b" THEN pc0 - 1
                             ELSE pc0
                      num == 12 * (int(m.octv) + 1) + pc
                  IN  Max(0, Min(127, num))
             ELSE ValueError
        ELSE IF IsInt(name) THEN Max(0, Min(127, int(name)))
        ELSE 60

clamp(v, lo, hi) == IF v < lo THEN lo ELSE IF v > hi THEN hi ELSE v

\* ------------------------------------------------------- per-device state
DevState ==
    [note_hold      |-> 0,
     vol_hold       |-> 0,
     sustain_on     |-> 0,
     octave_offset  |-> 0,
     last_volume    |-> DEFAULT_VELOCITY,
     current_note   |-> None,
     sustained_note |-> None,
     last_cc_vals   |-> <<>>]

\* dict.get(cc): the stored value, None for a missing key
cc_get(tbl, cc) == IF cc \in DOMAIN tbl THEN tbl[cc] ELSE None

\* dict[cc] = val
cc_put(tbl, cc, val) ==
    [k \in (DOMAIN tbl) \cup {cc} |-> IF k = cc THEN val ELSE tbl[k]]

Abs(x) == IF x < 0 THEN 0 - x ELSE x

\* cc_send with the threshold taken as exclusive (> instead of >=)
cc_send_Exclusive(st, cc, val) ==
    LET prev == cc_get(st.last_cc_vals, cc)
    IN  IF prev = None \/ Abs(val - prev) > DEADBAND_CC
        THEN [st  |-> [st EXCEPT !.last_cc_vals = cc_put(st.last_cc_vals, cc, val)],
              out |-> <<midi_cc(cc, val)>>]
        ELSE [st |-> st, out |-> <<>>]

\* cc_send measuring against the previous value rather than the last one sent
cc_send_StorePrevious(st, cc, val) ==
    LET prev == cc_get(st.last_cc_vals, cc)
        kept == [st EXCEPT !.last_cc_vals = cc_put(st.last_cc_vals, cc, val)]
    IN  IF prev = None \/ Abs(val - prev) >= DEADBAND_CC
        THEN [st |-> kept, out |-> <<midi_cc(cc, val)>>]
        ELSE [st |-> kept, out |-> <<>>]

\* Every handler part below maps a device state to the state it leaves and
\* the calls it makes on the MIDI output, in order.
cc_send(st, cc, val) ==
    LET prev == cc_get(st.last_cc_vals, cc)
    IN  IF prev = None \/ Abs(val - prev) >= DEADBAND_CC
        THEN [st  |-> [st EXCEPT !.last_cc_vals = cc_put(st.last_cc_vals, cc, val)],
              out |-> <<midi_cc(cc, val)>>]
        ELSE [st |-> st, out |-> <<>>]

\* DEVICES.get(dev_id), a fresh DevState when the id is new
S(dev_id) == IF dev_id \in DOMAIN DEVICES THEN DEVICES[dev_id] ELSE DevState

\* the reader threads main() starts, one per port
Threads == {"COM14", "COM17"}

\* a reader between two lines: no handler running, no locals
Idle ==
    [pc |-> "idle", line |-> <<>>, dev |-> 0, own |-> FALSE, obj |-> DevState,
     prev |-> 0, note |-> 0, arg |-> 0, vel |-> 0]

\* ---------------------------------------------------------------- handlers
\* button_NH that stops the current note on release whatever sustain_on is
button_NH_IgnoreSustain(st, state) ==
    LET prev == st.note_hold
        st1  == [st EXCEPT !.note_hold = state]
    IN  IF prev = 1 /\ state = 0 /\ st1.current_note # None
        THEN [st  |-> [st1 EXCEPT !.current_note = None],
              out |-> <<midi_note_off(st1.current_note)>>]
        ELSE [st |-> st1, out |-> <<>>]

\* button_NH that forgets the note on release without stopping it
button_NH_ForgetOnly(st, state) ==
    LET prev == st.note_hold
        st1  == [st EXCEPT !.note_hold = state]
    IN  IF prev = 1 /\ state = 0 /\ st1.sustain_on = 0 /\ st1.current_note # None
        THEN [st |-> [st1 EXCEPT !.current_note = None], out |-> <<>>]
        ELSE [st |-> st1, out |-> <<>>]

button_NH(st, state) ==
    LET prev == st.note_hold
        st1  == [st EXCEPT !.note_hold = state]
    IN  IF prev = 1 /\ state = 0 /\ st1.sustain_on = 0 /\ st1.current_note # None
        THEN [st  |-> [st1 EXCEPT !.current_note = None],
              out |-> <<midi_note_off(st1.current_note)>>]
        ELSE [st |-> st1, out |-> <<>>]

button_VH(st, state) ==
    [st |-> [st EXCEPT !.vol_hold = state], out |-> <<>>]

button_SUS(st, state) ==
    IF state = 1
    THEN [st  |-> IF st.current_note # None
                  THEN [st EXCEPT !.sustain_on = 1,
                                  !.sustained_note = st.current_note]
                  ELSE [st EXCEPT !.sustain_on = 1],
          out |-> <<>>]
    ELSE IF st.sustained_note # None
         THEN [st  |-> [st EXCEPT !.sustain_on = 0, !.sustained_note = None],
               out |-> <<midi_note_off(st.sustained_note)>>]
         ELSE [st |-> [st EXCEPT !.sustain_on = 0], out |-> <<>>]

\* button_OCT that lets the offset leave OCT_MIN..OCT_MAX
button_OCT_NoClamp(st, delta) ==
    [st  |-> [st EXCEPT !.octave_offset = st.octave_offset + 12 * delta],
     out |-> <<>>]

\* button_OCT that also moves the note being played to the new octave
button_OCT_Retroactive(st, delta) ==
    LET off  == clamp(st.octave_offset + 12 * delta, OCT_MIN, OCT_MAX)
        note == clamp(st.current_note + off - st.octave_offset, 0, 127)
    IN  IF st.current_note # None
        THEN [st  |-> [st EXCEPT !.octave_offset = off, !.current_note = note],
              out |-> <<midi_note_off(st.current_note),
                        midi_note_on(note, st.last_volume)>>]
        ELSE [st |-> [st EXCEPT !.octave_offset = off], out |-> <<>>]

button_OCT(st, delta) ==
    [st  |-> [st EXCEPT !.octave_offset =
                            clamp(st.octave_offset + 12 * delta, OCT_MIN, OCT_MAX)],
     out |-> <<>>]

\* button_PANIC as an all-notes-off: it stops and clears current_note too
button_PANIC_AllOff(st) ==
    [st  |-> [st EXCEPT !.sustain_on = 0, !.sustained_note = None,
                        !.current_note = None],
     out |-> (IF st.sustained_note # None
              THEN <<midi_note_off(st.sustained_note)>> ELSE <<>>)
             \o (IF st.current_note # None
                 THEN <<midi_note_off(st.current_note)>> ELSE <<>>)]

button_PANIC(st) ==
    IF st.sustained_note # None
    THEN [st  |-> [st EXCEPT !.sustain_on = 0, !.sustained_note = None],
          out |-> <<midi_note_off(st.sustained_note)>>]
    ELSE [st |-> [st EXCEPT !.sustain_on = 0], out |-> <<>>]

pitch_sustain(st, note) ==
    IF st.sustained_note # note
    THEN [st  |-> [st EXCEPT !.sustained_note = note, !.current_note = None],
          out |-> (IF st.sustained_note # None
                   THEN <<midi_note_off(st.sustained_note)>>
                   ELSE <<>>)
                  \o <<midi_note_on(note, st.last_volume)>>]
    ELSE [st |-> [st EXCEPT !.current_note = None], out |-> <<>>]

\* pitch_no_sustain without the note-off of the note it replaces
pitch_no_sustain_NoOff(st, note) ==
    IF st.current_note # note
    THEN [st  |-> [st EXCEPT !.current_note = note],
          out |-> <<midi_note_on(note, st.last_volume)>>]
    ELSE [st |-> st, out |-> <<>>]

pitch_no_sustain(st, note) ==
    IF st.current_note # note
    THEN [st  |-> [st EXCEPT !.current_note = note],
          out |-> (IF st.current_note # None
                   THEN <<midi_note_off(st.current_note)>>
                   ELSE <<>>)
                  \o <<midi_note_on(note, st.last_volume)>>]
    ELSE [st |-> st, out |-> <<>>]

\* pitch that remembers the note while note_hold is 0
pitch_Remember(st, name) ==
    LET note == clamp(note_name_to_number(name) + st.octave_offset, 0, 127)
    IN  IF st.note_hold = 1
        THEN IF st.sustain_on # 0
             THEN pitch_sustain(st, note)
             ELSE pitch_no_sustain(st, note)
        ELSE [st |-> [st EXCEPT !.current_note = note], out |-> <<>>]

pitch(st, name) ==
    LET note == clamp(note_name_to_number(name) + st.octave_offset, 0, 127)
    IN  IF st.note_hold = 1
        THEN IF st.sustain_on # 0
             THEN pitch_sustain(st, note)
             ELSE pitch_no_sustain(st, note)
        ELSE [st |-> st, out |-> <<>>]

\* volume that keeps the value only while vol_hold is 1
volume_OnlyWhenHeld(st, val) ==
    IF st.vol_hold = 1 THEN cc_send([st EXCEPT !.last_volume = val], 11, val)
    ELSE [st |-> st, out |-> <<>>]

volume(st, val) ==
    LET st1 == [st EXCEPT !.last_volume = val]
    IN  IF st1.vol_hold = 1 THEN cc_send(st1, 11, val)
        ELSE [st |-> st1, out |-> <<>>]

\* an Effect line sent whatever vol_hold is
effect_Ungated(st, param, val) ==
    IF param \in DOMAIN CC_MAP
    THEN cc_send(st, CC_MAP[param], val)
    ELSE [st |-> st, out |-> <<>>]

effect(st, param, val) ==
    IF st.vol_hold = 1 /\ param \in DOMAIN CC_MAP
    THEN cc_send(st, CC_MAP[param], val)
    ELSE [st |-> st, out |-> <<>>]

\* ------------------------------------------------- notes left sounding
\* The pitches of the note-ons not yet answered by a note-off of the same
\* pitch, oldest first, after the calls of `out` reach a synth that had
\* `snd` sounding.
RECURSIVE Sounding(_, _)
Sounding(snd, out) ==
    IF out = <<>> THEN snd
    ELSE LET e == Head(out)
         IN  Sounding(
                 IF e.op = "note_on" THEN Append(snd, e.a)
                 ELSE IF e.op = "note_off"
                      THEN SelectSeq(snd, LAMBDA p : p # e.a)
                      ELSE snd,
                 Tail(out))

\* One line handled to the end: the device's state is stored under its id,
\* the MIDI calls of this line are in `sink`, `last` is the line, and `open`
\* follows what the calls leave sounding for the device.
Commit(line, dev, r) ==
    /\ \E t \in Threads : thr[t].pc = "idle"
    /\ DEVICES' = [k \in (DOMAIN DEVICES) \cup {dev} |->
                       IF k = dev THEN r.st ELSE DEVICES[k]]
    /\ sink' = r.out
    /\ last' = line
    /\ open' = [open EXCEPT ![dev] = Sounding(open[dev], r.out)]
    /\ UNCHANGED <<thr, round, rd, res>>

\* A handler raised after st = S(dev): the device's state is in the dict,
\* nothing was sent, and the except clause of the reader_thread that took
\* the line ends the thread.
Crash(line, dev) ==
    /\ \E t \in Threads :
          /\ thr[t].pc = "idle"
          /\ thr' = [thr EXCEPT ![t] = [Idle EXCEPT !.pc = "crashed"]]
    /\ DEVICES' = [k \in (DOMAIN DEVICES) \cup {dev} |->
                       IF k = dev THEN S(dev) ELSE DEVICES[k]]
    /\ sink' = <<>>
    /\ last' = line
    /\ UNCHANGED <<open, round, rd, res>>

handle_button(line) ==
    /\ \/ RE_B_NH(line)
       \/ RE_B_VH(line)
       \/ RE_B_SUS(line)
       \/ RE_B_OCT(line)
       \/ RE_B_PAN(line)
    /\ LET m   == Dollar(line)
           dev == int(m[2])
           st  == S(dev)
       IN  Commit(line, dev,
               IF RE_B_NH(line) THEN button_NH(st, int(m[4]))
               ELSE IF RE_B_VH(line) THEN button_VH(st, int(m[4]))
               ELSE IF RE_B_SUS(line) THEN button_SUS(st, int(m[4]))
               ELSE IF RE_B_OCT(line) THEN button_OCT(st, int(m[4]))
               ELSE button_PANIC(st))

handle_pitch(line) ==
    /\ RE_P(line)
    /\ LET m   == Dollar(line)
           dev == int(m[2])
       IN  IF note_name_to_number(m[3]) = ValueError
           THEN Crash(line, dev)
           ELSE Commit(line, dev, pitch(S(dev), m[3]))

handle_volume(line) ==
    /\ RE_V(line)
    /\ LET m   == Dollar(line)
           dev == int(m[2])
       IN  Commit(line, dev, volume(S(dev), int(m[3])))

handle_effect(line) ==
    /\ RE_E(line)
    /\ LET m   == Dollar(line)
           dev == int(m[2])
       IN  Commit(line, dev, effect(S(dev), m[3], int(m[4])))

\* ------------------------------------------------------------ the inputs
DevFields == {<<"1">>, <<"2">>}

DevIds == {int(d) : d \in DevFields}

PitchTokens == {<<"C","4">>, <<"6","2">>}

\* a note name the Pitch pattern takes, C in an octave of one digit more
\* than int() takes
LongOctave == [i \in 1..(MaxStrDigits + 1) |-> "9"]
LongNote == <<"C">> \o LongOctave

VolumeTokens == {<<"0">>, <<"1","0","0">>}

OctTokens == {<<"+","1">>, <<"-","1">>, <<"9","9">>, <<"-","9","9">>}
OCTLines(devs, toks) == {<<F_B, d, F_OCT, n>> : d \in devs, n \in toks}

NHLines(devs)    == {<<F_B, d, F_NH, x>> : d \in devs, x \in {F_0, F_1}}
VHLines(devs)    == {<<F_B, d, F_VH, x>> : d \in devs, x \in {F_0, F_1}}
SUSLines(devs)   == {<<F_B, d, F_SUS, x>> : d \in devs, x \in {F_0, F_1}}
PANICLines(devs) == {<<F_B, d, F_PANIC, F_1>> : d \in devs}
PitchLines(devs, toks)  == {<<F_P, d, n>> : d \in devs, n \in toks}
VolumeLines(devs, toks) == {<<F_V, d, v>> : d \in devs, v \in toks}

\* the lines that drive the note state machine, for two devices
NoteLines ==
    NHLines(DevFields) \cup SUSLines(DevFields) \cup PANICLines(DevFields)
        \cup PitchLines(DevFields, PitchTokens)

\* the note lines of device 1, with a Pitch line for the long name
LongLines ==
    NHLines({<<"1">>}) \cup SUSLines({<<"1">>}) \cup PANICLines({<<"1">>})
        \cup PitchLines({<<"1">>}, PitchTokens \cup {LongNote})

\* the lines that set and use the velocity, for two devices
VelLines ==
    NHLines(DevFields) \cup VHLines(DevFields)
        \cup PitchLines(DevFields, {<<"C","4">>})
        \cup VolumeLines(DevFields, VolumeTokens)

EffectLines(devs, params, toks) ==
    {<<F_E, d, q, v>> : d \in devs, q \in params, v \in toks}

CCTokens == {<<"1","0","0">>, <<"1","0","1">>, <<"1","0","2">>}

\* the lines that reach the deadband filter, for two devices
CCLines ==
    VHLines(DevFields) \cup VolumeLines(DevFields, CCTokens)
        \cup EffectLines(DevFields, {<<"C","U","T">>}, {<<"1","0","0">>, <<"1","0","2">>})

\* the lines of the volume-hold gate: every Effect parameter on device 1,
\* with the lines that must send no controller change
FXLines ==
    VHLines(DevFields) \cup NHLines({<<"1">>})
        \cup PitchLines({<<"1">>}, {<<"C","4">>})
        \cup VolumeLines({<<"1">>}, {<<"1","0","0">>})
        \cup EffectLines({<<"1">>}, DOMAIN CC_MAP, {<<"7">>})

\* the lines that move the octave offset on two devices, with the note
\* lines of device 1 that use it
OctLines ==
    OCTLines({<<"1">>}, OctTokens)
        \cup OCTLines({<<"2">>}, {<<"9","9">>, <<"-","9","9">>})
        \cup NHLines({<<"1">>}) \cup SUSLines({<<"1">>})
        \cup PitchLines({<<"1">>}, {<<"6","0">>, <<"C","9">>, <<"0">>})

\* lines of no accepted shape: a value or state out of range, an unknown
\* parameter or tag, a field too many or too few, a malformed field
BadFor(d) ==
    { <<F_V, d, <<"1","2","8">>>>,
      <<F_V, d, <<"-","1">>>>,
      <<F_V, d, <<"0","0","5">>>>,
      <<F_V, d, <<" ","5">>>>,
      <<F_V, d>>,
      <<F_V, d, <<"5">>, <<"6">>>>,
      <<F_B, d, F_NH, <<"2">>>>,
      <<F_B, d, F_VH, <<"1","0">>>>,
      <<F_B, d, F_SUS>>,
      <<F_B, d, F_PANIC, F_0>>,
      <<F_B, d, F_OCT, <<"+","1","0","0">>>>,
      <<F_B, d, <<"N","H","X">>, F_1>>,
      <<F_P, d, <<"H","4">>>>,
      <<F_P, d, <<"C">>>>,
      <<F_P, d, <<"1","2","8">>>>,
      <<F_P, d, <<"C","4">>, <<"1">>>>,
      <<F_E, d, <<"X","Y","Z">>, <<"5">>>>,
      <<F_E, d, <<"c","u","t">>, <<"5">>>>,
      <<F_E, d, <<"C","U","T">>, <<"1","2","8">>>>,
      <<F_E, d, <<"C","U","T">>>>,
      <<<<"X">>, d, <<"5">>>>,
      <<<<"v">>, d, <<"5">>>> }

BadLines ==
    BadFor(<<"1">>) \cup BadFor(<<"9">>)
        \cup { <<F_V, <<>>, <<"5">>>>,
               <<F_V, <<"1","2","3","4">>, <<"5">>>>,
               <<F_B, <<"x">>, F_NH, F_1>>,
               <<F_V>> }

\* lines that are not ASCII, of no shape of the protocol, which the patterns
\* let through: their numbers are written in other decimal digits
NonAsciiLines ==
    { <<F_V, <<"9">>, <<"U+0663">>>>,
      <<F_V, <<"1">>, <<"U+FF15">>>> }

\* bad lines among good ones that build the state they must leave alone
SkipLines ==
    BadLines \cup NonAsciiLines \cup NHLines(DevFields) \cup PitchLines(DevFields, {<<"C","4">>})
        \cup VHLines({<<"1">>}) \cup VolumeLines({<<"1">>}, {<<"5">>})
        \cup EffectLines({<<"1">>}, {<<"C","U","T">>}, {<<"5">>})

\* the lines that take pitches, velocities and controller values to both
\* ends of their ranges: Cb-1 and g#9 resolve to -1 and 128 before clamping
RangeLines ==
    NHLines({<<"1">>}) \cup VHLines({<<"1">>})
        \cup OCTLines({<<"1">>}, {<<"9","9">>, <<"-","9","9">>})
        \cup PitchLines({<<"1">>}, {<<"C","b","-","1">>, <<"g","#","9">>})
        \cup VolumeLines({<<"1">>}, {<<"0">>, <<"1","2","7">>})
        \cup EffectLines({<<"1">>}, {<<"M","O","D">>}, {<<"0">>, <<"1","2","7">>})

\* ------------------------------------------------ tokens for the resolver
MinOctave == -2
MaxOctave == 10
MinInt == -3
MaxInt == 130

\* the decimal text of an integer
RECURSIVE DecNat(_)
DecNat(n) ==
    LET d == Chr(48 + (n % 10))
    IN  IF n < 10 THEN <<d>> ELSE Append(DecNat(n \div 10), d)

Dec(n) == IF n < 0 THEN <<"-">> \o DecNat(0 - n) ELSE DecNat(n)

\* a letter, an accidental or none, and an octave, with the token they spell;
\* a bare integer (letter "") with its decimal text; and the long name and
\* the long integer, whose number of MaxStrDigits + 1 nines is held as IntCap
NoteInputs ==
    {[letter |-> "C", acc |-> <<>>, n |-> IntCap, name |-> LongNote,
      num |-> None],
     [letter |-> "", acc |-> <<>>, n |-> IntCap, name |-> LongOctave,
      num |-> None]}
    \cup
    {[letter |-> l, acc |-> a, n |-> o, name |-> <<l>> \o a \o Dec(o),
      num |-> None] :
        l \in Letters, a \in {<<>>, <<"#">>, <<"b">>}, o \in MinOctave..MaxOctave}
    \cup
    {[letter |-> "", acc |-> <<>>, n |-> k, name |-> Dec(k), num |-> None] :
        k \in MinInt..MaxInt}

\* ------------------------------------------------- bytes from a port
\* "FF" is a byte that is not valid UTF-8, "0C" the form feed that strip()
\* takes off, "EF" "BC" "95" the UTF-8 encoding of U+FF15, and "D9" the
\* first byte of a two-byte sequence.
MaxLines == 2

\* terminated lines: plain; padded, with a stray byte and ending in \r\n;
\* with a number in a digit of three bytes; unmatched, ending in the first
\* byte of a sequence; empty
StreamItems ==
    { <<"B",",","1",",","N","H",",","1","\n">>,
      <<" ","P",",","1",",","FF","6","2","0C","\r","\n">>,
      <<"V",",","1",",","EF","BC","95","\n">>,
      <<"x","D9","\n">>,
      <<"\r","\n">> }

\* what may follow the last newline: nothing, or the start of a line
StreamTails == { <<>>, <<"P",",","1",",","6">> }

RECURSIVE Concat(_)
Concat(ss) == IF ss = <<>> THEN <<>> ELSE Head(ss) \o Concat(Tail(ss))

Streams ==
    { Concat(items) \o tail :
        items \in UNION {[1..k -> StreamItems] : k \in 0..MaxLines},
        tail \in StreamTails }

\* the program after start-up, no line read yet
Started ==
    /\ DEVICES = <<>>
    /\ sink = <<>>
    /\ last = <<>>
    /\ open = [d \in DevIds |-> <<>>]
    /\ thr = [t \in Threads |-> Idle]
    /\ round = [n |-> 0, base |-> <<>>, batch |-> <<>>]

Init ==
    /\ Started
    /\ rd = [port |-> "COM14", rest |-> <<>>, whole |-> <<>>, buf |-> <<>>,
            lines |-> <<>>]
    /\ res = [letter |-> "", acc |-> <<>>, n |-> 0, name |-> <<>>, num |-> None]

\* The lines the running readers take, handled one after the other in the
\* order of reader_thread's dispatch: the first handler that accepts the line.
\* handle_button, handle_pitch, handle_volume and handle_effect each return
\* False on a line their patterns do not match, and the next one is tried.
is_button(line) ==
    RE_B_NH(line) \/ RE_B_VH(line) \/ RE_B_SUS(line) \/ RE_B_OCT(line)
                  \/ RE_B_PAN(line)

dispatch_button(line) == handle_button(line)

dispatch_pitch(line) == ~is_button(line) /\ handle_pitch(line)

dispatch_volume(line) ==
    ~is_button(line) /\ ~RE_P(line) /\ handle_volume(line)

dispatch_effect(line) ==
    ~is_button(line) /\ ~RE_P(line) /\ ~RE_V(line) /\ handle_effect(line)

\* a line no handler takes: "[SKIP] Unmatched" is printed, nothing else
skip(line) ==
    /\ \E t \in Threads : thr[t].pc = "idle"
    /\ ~is_button(line) /\ ~RE_P(line) /\ ~RE_V(line) /\ ~RE_E(line)
    /\ last' = line
    /\ sink' = <<>>
    /\ UNCHANGED <<DEVICES, open, thr, round, rd, res>>

Next ==
    \E line \in NoteLines :
        \/ dispatch_button(line)
        \/ dispatch_pitch(line)

Spec == Init /\ [][Next]_vars

NextLong ==
    \E line \in LongLines :
        \/ dispatch_button(line)
        \/ dispatch_pitch(line)

SpecLong == Init /\ [][NextLong]_vars

NextVel ==
    \E line \in VelLines :
        \/ dispatch_button(line)
        \/ dispatch_pitch(line)
        \/ dispatch_volume(line)

SpecVel == Init /\ [][NextVel]_vars

NextCC ==
    \E line \in CCLines :
        \/ dispatch_button(line)
        \/ dispatch_volume(line)
        \/ dispatch_effect(line)

SpecCC == Init /\ [][NextCC]_vars

NextFX ==
    \E line \in FXLines :
        \/ dispatch_button(line)
        \/ dispatch_pitch(line)
        \/ dispatch_volume(line)
        \/ dispatch_effect(line)

SpecFX == Init /\ [][NextFX]_vars

NextOct ==
    \E line \in OctLines :
        \/ dispatch_button(line)
        \/ dispatch_pitch(line)

SpecOct == Init /\ [][NextOct]_vars

NextSkip ==
    \E line \in SkipLines :
        \/ dispatch_button(line)
        \/ dispatch_pitch(line)
        \/ dispatch_volume(line)
        \/ dispatch_effect(line)
        \/ skip(line)

SpecSkip == Init /\ [][NextSkip]_vars

NextRange ==
    \E line \in RangeLines :
        \/ dispatch_button(line)
        \/ dispatch_pitch(line)
        \/ dispatch_volume(line)
        \/ dispatch_effect(line)

SpecRange == Init /\ [][NextRange]_vars

\* the resolver alone, on one token
InitResolve ==
    /\ Started
    /\ rd = [port |-> "COM14", rest |-> <<>>, whole |-> <<>>, buf |-> <<>>,
            lines |-> <<>>]
    /\ res \in NoteInputs

resolve ==
    /\ res.num = None
    /\ res' = [res EXCEPT !.num = note_name_to_number(res.name)]
    /\ UNCHANGED <<DEVICES, sink, last, open, thr, round, rd>>

NextResolve == resolve

SpecResolve == InitResolve /\ [][NextResolve]_vars

\* ------------------------------------------------ two readers, unlocked
\* main() starts one reader_thread per port and nothing serialises them: a
\* handler of one thread runs step by step between the steps of the other.
\* A step is one read or one write of a DevState attribute, one dict
\* operation or one MIDI call: the argument of a MIDI call is read in a step
\* of its own, before the call.  A reader takes its next line as soon as its
\* handler has returned, whatever the other reader is doing.  A round is the
\* lines taken from a moment both readers were between lines to the next.
MaxRounds == 2
MaxBatch == 3

\* the lines the two readers receive: the note machine of device 1
ConcLines ==
    NHLines({<<"1">>}) \cup SUSLines({<<"1">>}) \cup PANICLines({<<"1">>})
        \cup PitchLines({<<"1">>}, PitchTokens)

\* the lines the two readers receive: the holds, the octave, the volume and
\* an effect of device 1, with the note that uses the octave and the volume
CtlLines ==
    {<<F_B, <<"1">>, F_NH, F_1>>, <<F_B, <<"1">>, F_VH, F_1>>,
     <<F_B, <<"1">>, F_OCT, <<"+","1">>>>}
        \cup PitchLines({<<"1">>}, {<<"C","4">>})
        \cup VolumeLines({<<"1">>}, {<<"1","0","0">>})
        \cup EffectLines({<<"1">>}, {<<"C","U","T">>}, {<<"1","0","0">>})

AllIdle == \A t \in Threads : thr[t].pc \in {"idle", "crashed"}

\* the DevState the thread's local `st` refers to: the one in the dict, or
\* one that the dict no longer holds (own)
Obj(t) == IF thr[t].own THEN thr[t].obj ELSE DEVICES[thr[t].dev]

\* One step of thread t: it goes to pc2 with locals loc, leaves obj2 in the
\* DevState it refers to, and makes the MIDI calls `out`.  Returning from the
\* handler (pc2 = "idle") drops the locals.
Step(t, pc2, obj2, loc, out) ==
    /\ thr' = [thr EXCEPT ![t] =
                  IF pc2 \in {"idle", "crashed"} THEN [Idle EXCEPT !.pc = pc2]
                  ELSE [loc EXCEPT !.pc = pc2,
                                   !.obj = IF thr[t].own THEN obj2 ELSE @]]
    /\ DEVICES' = IF thr[t].own THEN DEVICES
                  ELSE [DEVICES EXCEPT ![thr[t].dev] = obj2]
    /\ sink' = sink \o out
    /\ open' = [open EXCEPT ![thr[t].dev] = Sounding(@, out)]
    /\ UNCHANGED <<last, round, rd, res>>

Jump(t, pc2) == Step(t, pc2, Obj(t), thr[t], <<>>)

\* where the handlers take a matched line after st = S(dev)
Body(line) ==
    IF RE_B_NH(line) THEN "nh_prev"
    ELSE IF RE_B_VH(line) THEN "vh_set"
    ELSE IF RE_B_SUS(line) THEN (IF int(line[4]) = 1 THEN "sus_on" ELSE "sus_off")
    ELSE IF RE_B_OCT(line) THEN "oct_read"
    ELSE IF RE_B_PAN(line) THEN "pan_off"
    ELSE IF RE_P(line) THEN "p_note"
    ELSE IF RE_V(line) THEN "v_set"
    ELSE "e_vh"

\* the controller and the value a Volume or Effect line hands to cc_send
CcOf(line) == IF RE_V(line) THEN 11 ELSE cc_get(CC_MAP, line[3])

ValOf(line) == IF RE_V(line) THEN int(line[3]) ELSE int(line[4])

\* reader_thread takes its next line and calls the handler that matches it
read_line(t, lines) ==
    /\ thr[t].pc = "idle"
    /\ IF AllIdle THEN round.n < MaxRounds ELSE Len(round.batch) < MaxBatch
    /\ \E line \in lines :
          /\ thr' = [thr EXCEPT ![t] =
                        [Idle EXCEPT !.pc = "S_get", !.line = Dollar(line),
                                     !.dev = int(line[2])]]
          /\ last' = line
          /\ round' = IF AllIdle
                      THEN [n     |-> round.n + 1,
                            base  |-> DEVICES,
                            batch |-> <<[t |-> t, line |-> line]>>]
                      ELSE [round EXCEPT
                               !.batch = Append(@, [t |-> t, line |-> line])]
          /\ sink' = IF AllIdle THEN <<>> ELSE sink
    /\ UNCHANGED <<DEVICES, open, rd, res>>

\* S: st = DEVICES.get(dev_id)
S_get(t) ==
    /\ thr[t].pc = "S_get"
    /\ IF thr[t].dev \in DOMAIN DEVICES
       THEN Jump(t, Body(thr[t].line))
       ELSE Jump(t, "S_new")

\* S: st = DevState(); DEVICES[dev_id] = st.  A thread that still refers to
\* the DevState this replaces keeps that object, now outside the dict.
S_new(t) ==
    /\ thr[t].pc = "S_new"
    /\ LET d == thr[t].dev
           holds(u) == /\ u # t
                       /\ thr[u].dev = d
                       /\ ~thr[u].own
                       /\ thr[u].pc \notin {"idle", "crashed", "S_get", "S_new"}
       IN  /\ DEVICES' = [k \in (DOMAIN DEVICES) \cup {d} |->
                             IF k = d THEN DevState ELSE DEVICES[k]]
           /\ thr' = [u \in Threads |->
                         IF u = t THEN [thr[t] EXCEPT !.pc = Body(thr[t].line)]
                         ELSE IF holds(u)
                              THEN [thr[u] EXCEPT !.own = TRUE, !.obj = DEVICES[d]]
                              ELSE thr[u]]
    /\ UNCHANGED <<sink, last, open, round, rd, res>>

\* midi_note_off(note): max(0, min(127, None)) raises, and reader_thread's
\* except clause ends the thread
NoteOffStep(t, pc2) ==
    IF thr[t].arg = None THEN Jump(t, "crashed")
    ELSE Step(t, pc2, Obj(t), thr[t], <<midi_note_off(thr[t].arg)>>)

\* handle_button, NH
nh_prev(t) ==
    /\ thr[t].pc = "nh_prev"
    /\ Step(t, "nh_set", Obj(t), [thr[t] EXCEPT !.prev = Obj(t).note_hold], <<>>)

nh_set(t) ==
    /\ thr[t].pc = "nh_set"
    /\ LET state == int(thr[t].line[4])
       IN  Step(t, IF thr[t].prev = 1 /\ state = 0 THEN "nh_sus" ELSE "idle",
                [Obj(t) EXCEPT !.note_hold = state], thr[t], <<>>)

nh_sus(t) ==
    /\ thr[t].pc = "nh_sus"
    /\ Jump(t, IF Obj(t).sustain_on = 0 THEN "nh_cur" ELSE "idle")

nh_cur(t) ==
    /\ thr[t].pc = "nh_cur"
    /\ Jump(t, IF Obj(t).current_note # None THEN "nh_arg" ELSE "idle")

nh_arg(t) ==
    /\ thr[t].pc = "nh_arg"
    /\ Step(t, "nh_off", Obj(t), [thr[t] EXCEPT !.arg = Obj(t).current_note], <<>>)

nh_off(t) ==
    /\ thr[t].pc = "nh_off"
    /\ NoteOffStep(t, "nh_clear")

nh_clear(t) ==
    /\ thr[t].pc = "nh_clear"
    /\ Step(t, "idle", [Obj(t) EXCEPT !.current_note = None], thr[t], <<>>)

\* handle_button, VH
vh_set(t) ==
    /\ thr[t].pc = "vh_set"
    /\ Step(t, "idle", [Obj(t) EXCEPT !.vol_hold = int(thr[t].line[4])],
            thr[t], <<>>)

\* handle_button, SUS 1
sus_on(t) ==
    /\ thr[t].pc = "sus_on"
    /\ Step(t, "sus_cur", [Obj(t) EXCEPT !.sustain_on = 1], thr[t], <<>>)

sus_cur(t) ==
    /\ thr[t].pc = "sus_cur"
    /\ Jump(t, IF Obj(t).current_note # None THEN "sus_read" ELSE "idle")

sus_read(t) ==
    /\ thr[t].pc = "sus_read"
    /\ Step(t, "sus_promote", Obj(t),
            [thr[t] EXCEPT !.arg = Obj(t).current_note], <<>>)

sus_promote(t) ==
    /\ thr[t].pc = "sus_promote"
    /\ Step(t, "idle", [Obj(t) EXCEPT !.sustained_note = thr[t].arg],
            thr[t], <<>>)

\* handle_button, SUS 0
sus_off(t) ==
    /\ thr[t].pc = "sus_off"
    /\ Step(t, "sus_chk", [Obj(t) EXCEPT !.sustain_on = 0], thr[t], <<>>)

sus_chk(t) ==
    /\ thr[t].pc = "sus_chk"
    /\ Jump(t, IF Obj(t).sustained_note # None THEN "sus_arg" ELSE "idle")

sus_arg(t) ==
    /\ thr[t].pc = "sus_arg"
    /\ Step(t, "sus_noteoff", Obj(t),
            [thr[t] EXCEPT !.arg = Obj(t).sustained_note], <<>>)

sus_noteoff(t) ==
    /\ thr[t].pc = "sus_noteoff"
    /\ NoteOffStep(t, "sus_clear")

sus_clear(t) ==
    /\ thr[t].pc = "sus_clear"
    /\ Step(t, "idle", [Obj(t) EXCEPT !.sustained_note = None], thr[t], <<>>)

\* handle_button, OCT: the offset is read, then the clamped sum is stored
oct_read(t) ==
    /\ thr[t].pc = "oct_read"
    /\ Step(t, "oct_set", Obj(t),
            [thr[t] EXCEPT !.arg = Obj(t).octave_offset], <<>>)

oct_set(t) ==
    /\ thr[t].pc = "oct_set"
    /\ Step(t, "idle",
            [Obj(t) EXCEPT !.octave_offset =
                clamp(thr[t].arg + 12 * int(thr[t].line[4]), OCT_MIN, OCT_MAX)],
            thr[t], <<>>)

\* handle_button, PANIC
pan_off(t) ==
    /\ thr[t].pc = "pan_off"
    /\ Step(t, "pan_chk", [Obj(t) EXCEPT !.sustain_on = 0], thr[t], <<>>)

pan_chk(t) ==
    /\ thr[t].pc = "pan_chk"
    /\ Jump(t, IF Obj(t).sustained_note # None THEN "pan_arg" ELSE "idle")

pan_arg(t) ==
    /\ thr[t].pc = "pan_arg"
    /\ Step(t, "pan_noteoff", Obj(t),
            [thr[t] EXCEPT !.arg = Obj(t).sustained_note], <<>>)

pan_noteoff(t) ==
    /\ thr[t].pc = "pan_noteoff"
    /\ NoteOffStep(t, "pan_clear")

pan_clear(t) ==
    /\ thr[t].pc = "pan_clear"
    /\ Step(t, "idle", [Obj(t) EXCEPT !.sustained_note = None], thr[t], <<>>)

\* handle_pitch
p_note(t) ==
    /\ thr[t].pc = "p_note"
    /\ LET note == note_name_to_number(thr[t].line[3])
       IN  IF note = ValueError THEN Jump(t, "crashed")
           ELSE Step(t, "p_nh", Obj(t),
                     [thr[t] EXCEPT !.note =
                         clamp(note + Obj(t).octave_offset, 0, 127)],
                     <<>>)

p_nh(t) ==
    /\ thr[t].pc = "p_nh"
    /\ Jump(t, IF Obj(t).note_hold = 1 THEN "p_sus" ELSE "idle")

p_sus(t) ==
    /\ thr[t].pc = "p_sus"
    /\ Jump(t, IF Obj(t).sustain_on # 0 THEN "ps_cmp" ELSE "pn_cmp")

ps_cmp(t) ==
    /\ thr[t].pc = "ps_cmp"
    /\ Jump(t, IF Obj(t).sustained_note # thr[t].note THEN "ps_chk" ELSE "ps_clear")

ps_chk(t) ==
    /\ thr[t].pc = "ps_chk"
    /\ Jump(t, IF Obj(t).sustained_note # None THEN "ps_arg" ELSE "ps_vel")

ps_arg(t) ==
    /\ thr[t].pc = "ps_arg"
    /\ Step(t, "ps_off", Obj(t), [thr[t] EXCEPT !.arg = Obj(t).sustained_note], <<>>)

ps_off(t) ==
    /\ thr[t].pc = "ps_off"
    /\ NoteOffStep(t, "ps_vel")

ps_vel(t) ==
    /\ thr[t].pc = "ps_vel"
    /\ Step(t, "ps_on", Obj(t), [thr[t] EXCEPT !.vel = Obj(t).last_volume], <<>>)

ps_on(t) ==
    /\ thr[t].pc = "ps_on"
    /\ Step(t, "ps_set", Obj(t), thr[t],
            <<midi_note_on(thr[t].note, thr[t].vel)>>)

ps_set(t) ==
    /\ thr[t].pc = "ps_set"
    /\ Step(t, "ps_clear", [Obj(t) EXCEPT !.sustained_note = thr[t].note],
            thr[t], <<>>)

ps_clear(t) ==
    /\ thr[t].pc = "ps_clear"
    /\ Step(t, "idle", [Obj(t) EXCEPT !.current_note = None], thr[t], <<>>)

pn_cmp(t) ==
    /\ thr[t].pc = "pn_cmp"
    /\ Jump(t, IF Obj(t).current_note # thr[t].note THEN "pn_chk" ELSE "idle")

pn_chk(t) ==
    /\ thr[t].pc = "pn_chk"
    /\ Jump(t, IF Obj(t).current_note # None THEN "pn_arg" ELSE "pn_vel")

pn_arg(t) ==
    /\ thr[t].pc = "pn_arg"
    /\ Step(t, "pn_off", Obj(t), [thr[t] EXCEPT !.arg = Obj(t).current_note], <<>>)

pn_off(t) ==
    /\ thr[t].pc = "pn_off"
    /\ NoteOffStep(t, "pn_vel")

pn_vel(t) ==
    /\ thr[t].pc = "pn_vel"
    /\ Step(t, "pn_on", Obj(t), [thr[t] EXCEPT !.vel = Obj(t).last_volume], <<>>)

pn_on(t) ==
    /\ thr[t].pc = "pn_on"
    /\ Step(t, "pn_set", Obj(t), thr[t],
            <<midi_note_on(thr[t].note, thr[t].vel)>>)

pn_set(t) ==
    /\ thr[t].pc = "pn_set"
    /\ Step(t, "idle", [Obj(t) EXCEPT !.current_note = thr[t].note], thr[t], <<>>)

\* handle_volume
v_set(t) ==
    /\ thr[t].pc = "v_set"
    /\ Step(t, "v_vh", [Obj(t) EXCEPT !.last_volume = ValOf(thr[t].line)],
            thr[t], <<>>)

v_vh(t) ==
    /\ thr[t].pc = "v_vh"
    /\ Jump(t, IF Obj(t).vol_hold = 1 THEN "cc_prev" ELSE "idle")

\* handle_effect
e_vh(t) ==
    /\ thr[t].pc = "e_vh"
    /\ Jump(t, IF Obj(t).vol_hold = 1 /\ CcOf(thr[t].line) # None
               THEN "cc_prev" ELSE "idle")

\* cc_send: prev = self.last_cc_vals.get(cc), and the deadband test on it
cc_prev(t) ==
    /\ thr[t].pc = "cc_prev"
    /\ LET prev == cc_get(Obj(t).last_cc_vals, CcOf(thr[t].line))
       IN  Step(t, IF prev = None
                      \/ Abs(ValOf(thr[t].line) - prev) >= DEADBAND_CC
                   THEN "cc_midi" ELSE "idle",
                Obj(t), [thr[t] EXCEPT !.prev = prev], <<>>)

cc_midi(t) ==
    /\ thr[t].pc = "cc_midi"
    /\ Step(t, "cc_store", Obj(t), thr[t],
            <<midi_cc(CcOf(thr[t].line), ValOf(thr[t].line))>>)

cc_store(t) ==
    /\ thr[t].pc = "cc_store"
    /\ Step(t, "idle",
            [Obj(t) EXCEPT !.last_cc_vals =
                cc_put(@, CcOf(thr[t].line), ValOf(thr[t].line))],
            thr[t], <<>>)

NextConc ==
    \E t \in Threads :
        \/ read_line(t, ConcLines)
        \/ S_get(t)
        \/ S_new(t)
        \/ nh_prev(t)
        \/ nh_set(t)
        \/ nh_sus(t)
        \/ nh_cur(t)
        \/ nh_arg(t)
        \/ nh_off(t)
        \/ nh_clear(t)
        \/ sus_on(t)
        \/ sus_cur(t)
        \/ sus_read(t)
        \/ sus_promote(t)
        \/ sus_off(t)
        \/ sus_chk(t)
        \/ sus_arg(t)
        \/ sus_noteoff(t)
        \/ sus_clear(t)
        \/ pan_off(t)
        \/ pan_chk(t)
        \/ pan_arg(t)
        \/ pan_noteoff(t)
        \/ pan_clear(t)
        \/ p_note(t)
        \/ p_nh(t)
        \/ p_sus(t)
        \/ ps_cmp(t)
        \/ ps_chk(t)
        \/ ps_arg(t)
        \/ ps_off(t)
        \/ ps_vel(t)
        \/ ps_on(t)
        \/ ps_set(t)
        \/ ps_clear(t)
        \/ pn_cmp(t)
        \/ pn_chk(t)
        \/ pn_arg(t)
        \/ pn_off(t)
        \/ pn_vel(t)
        \/ pn_on(t)
        \/ pn_set(t)

SpecConc == Init /\ [][NextConc]_vars

NextCtl ==
    \E t \in Threads :
        \/ read_line(t, CtlLines)
        \/ S_get(t)
        \/ S_new(t)
        \/ nh_prev(t)
        \/ nh_set(t)
        \/ vh_set(t)
        \/ oct_read(t)
        \/ oct_set(t)
        \/ p_note(t)
        \/ p_nh(t)
        \/ p_sus(t)
        \/ pn_cmp(t)
        \/ pn_chk(t)
        \/ pn_arg(t)
        \/ pn_off(t)
        \/ pn_vel(t)
        \/ pn_on(t)
        \/ pn_set(t)
        \/ v_set(t)
        \/ v_vh(t)
        \/ e_vh(t)
        \/ cc_prev(t)
        \/ cc_midi(t)
        \/ cc_store(t)

SpecCtl == Init /\ [][NextCtl]_vars

\* ---------------------------------------------- the same lines, in series
\* what the handlers leave of state st and call on the MIDI output when
\* `line` is handled alone, by the first handler that matches; `raised`
\* when the handler raised instead of returning
serial_result(st, line) ==
    LET m == Dollar(line)
    IN  IF RE_B_NH(line) THEN button_NH(st, int(m[4]))
        ELSE IF RE_B_VH(line) THEN button_VH(st, int(m[4]))
        ELSE IF RE_B_SUS(line) THEN button_SUS(st, int(m[4]))
        ELSE IF RE_B_OCT(line) THEN button_OCT(st, int(m[4]))
        ELSE IF RE_B_PAN(line) THEN button_PANIC(st)
        ELSE IF RE_P(line)
             THEN IF note_name_to_number(m[3]) = ValueError
                  THEN [st |-> st, out |-> <<>>, raised |-> TRUE]
                  ELSE pitch(st, m[3])
        ELSE IF RE_V(line) THEN volume(st, int(m[3]))
        ELSE effect(st, m[3], int(m[4]))

Raised(r) == "raised" \in DOMAIN r

\* the dict and the MIDI calls after the lines are handled one after the
\* other, each by the reader that took it; a reader whose handler raised
\* has ended (it is in `dead`) and handles none of its later lines
RECURSIVE RunSerial(_, _, _, _)
RunSerial(devs, out, batch, dead) ==
    IF batch = <<>> THEN [devs |-> devs, out |-> out]
    ELSE IF Head(batch).t \in dead THEN RunSerial(devs, out, Tail(batch), dead)
    ELSE LET line == Head(batch).line
             dev  == int(line[2])
             r    == serial_result(IF dev \in DOMAIN devs THEN devs[dev]
                                   ELSE DevState, line)
         IN  RunSerial([k \in (DOMAIN devs) \cup {dev} |->
                           IF k = dev THEN r.st ELSE devs[k]],
                       out \o r.out, Tail(batch),
                       IF Raised(r) THEN dead \cup {Head(batch).t} ELSE dead)

\* the outcomes of the round's lines in every serial order that keeps the
\* lines of each reader in the order it took them
SerialOutcomes ==
    LET n == Len(round.batch)
        InOrder(p) == \A a, b \in 1..n :
                         (a < b /\ round.batch[p[a]].t = round.batch[p[b]].t)
                             => p[a] < p[b]
    IN  {RunSerial(round.base, <<>>, [i \in 1..n |-> round.batch[p[i]]], {}) :
            p \in {q \in Permutations(1..n) : InOrder(q)}}

\* --------------------------------------------------------- the reader
\* buf += data
Feed_Replace(buf, data) == data

Feed(buf, data) == buf \o data

\* UTF-8: the number of bytes that follow a first byte, 0 for an ASCII byte
\* and -1 for a byte that starts nothing
Follow(v) ==
    IF v < 128 THEN 0
    ELSE IF v \in 194..223 THEN 1
    ELSE IF v \in 224..239 THEN 2
    ELSE IF v \in 240..244 THEN 3
    ELSE -1

\* UTF-8: the values the k-th byte after the first byte v may have
Trail(v, k) ==
    IF k > 1 THEN 128..191
    ELSE IF v = 224 THEN 160..191
    ELSE IF v = 237 THEN 128..159
    ELSE IF v = 240 THEN 144..191
    ELSE IF v = 244 THEN 128..143
    ELSE 128..191

\* bytes.decode('utf-8', errors='ignore'): every well-formed sequence is one
\* character; a byte that starts nothing, and a first byte with the bytes
\* after it that are well-formed so far, are dropped
RECURSIVE decode(_)
decode(bytes) ==
    LET wide == {i \in DOMAIN bytes : Len(bytes[i]) > 1}
    IN  IF wide = {} THEN bytes
        ELSE LET i     == CHOOSE j \in wide : \A k \in wide : j <= k
                 rest  == SubSeq(bytes, i, Len(bytes))
                 v     == HexVal(rest[1])
                 n     == Follow(v)
                 b1    == HexVal(rest[2])
                 b2    == HexVal(rest[3])
                 b3    == HexVal(rest[4])
                 ok(k, x) == /\ k <= n
                             /\ k < Len(rest)
                             /\ Len(rest[k + 1]) = 2
                             /\ x \in Trail(v, k)
                 good  == IF ~ok(1, b1) THEN 0
                          ELSE IF ~ok(2, b2) THEN 1
                          ELSE IF ~ok(3, b3) THEN 2
                          ELSE 3
                 cp    == IF n = 1 THEN (v - 192) * 64 + (b1 - 128)
                          ELSE IF n = 2
                          THEN (v - 224) * 4096 + (b1 - 128) * 64 + (b2 - 128)
                          ELSE (v - 240) * 262144 + (b1 - 128) * 4096
                                   + (b2 - 128) * 64 + (b3 - 128)
             IN  SubSeq(bytes, 1, i - 1) \o
                 (IF n = 0 THEN <<Chr(v)>> \o decode(Tail(rest))
                  ELSE IF n = -1 THEN decode(Tail(rest))
                  ELSE IF good = n
                       THEN <<Chr(cp)>> \o decode(SubSeq(rest, n + 2, Len(rest)))
                  ELSE decode(SubSeq(rest, good + 2, Len(rest))))

\* str.split(','): the fields of a text between its commas, as the patterns
\* take them
RECURSIVE Fields(_)
Fields(text) ==
    LET commas == {i \in DOMAIN text : text[i] = ","}
    IN  IF commas = {} THEN <<text>>
        ELSE LET i == CHOOSE j \in commas : \A k \in commas : j <= k
             IN  <<SubSeq(text, 1, i - 1)>>
                     \o Fields(SubSeq(text, i + 1, Len(text)))

\* the byte b"\n", in both ways of writing it
Newline == {"\n", "0A"}

\* while b"\n" in buf: line, buf = buf.split(b"\n", 1); the texts that are
\* not empty go to the handlers, in order
RECURSIVE Drain(_, _)
Drain(buf, texts) ==
    IF \E i \in DOMAIN buf : buf[i] \in Newline
    THEN LET i    == CHOOSE j \in DOMAIN buf :
                        buf[j] \in Newline /\ \A k \in 1..(j - 1) : buf[k] \notin Newline
             text == strip(decode(SubSeq(buf, 1, i - 1)))
         IN  Drain(SubSeq(buf, i + 1, Len(buf)),
                   IF text = <<>> THEN texts ELSE Append(texts, text))
    ELSE [buf |-> buf, texts |-> texts]

Accepted(line) == is_button(line) \/ RE_P(line) \/ RE_V(line) \/ RE_E(line)

\* the texts handed to the four handlers one after the other; a text none
\* of them takes changes nothing; a handler that raises ends the loop, and
\* `done` counts the texts handed over until then
RECURSIVE Dispatch(_, _)
Dispatch(acc, texts) ==
    IF texts = <<>> \/ acc.dead THEN acc
    ELSE LET line == Fields(Head(texts))
             handled(dev, r) ==
                 Dispatch([devs |-> [k \in (DOMAIN acc.devs) \cup {dev} |->
                                        IF k = dev THEN r.st ELSE acc.devs[k]],
                           out  |-> acc.out \o r.out,
                           open |-> [acc.open EXCEPT
                                       ![dev] = Sounding(acc.open[dev], r.out)],
                           last |-> line,
                           done |-> acc.done + 1,
                           dead |-> Raised(r)],
                          Tail(texts))
             st(dev) == IF dev \in DOMAIN acc.devs THEN acc.devs[dev]
                        ELSE DevState
         IN  IF Accepted(line)
             THEN handled(int(line[2]), serial_result(st(int(line[2])), line))
             ELSE Dispatch([acc EXCEPT !.last = line, !.done = @ + 1],
                           Tail(texts))

\* One pass of the reader's loop: ser.read returned the next n bytes.  When
\* a handler raises, the thread ends, and its buffer with it.
reader_read(n) ==
    /\ thr[rd.port].pc = "idle"
    /\ n \in 1..Len(rd.rest)
    /\ LET dispatched(d, r) ==
               /\ rd' = [rd EXCEPT !.rest = SubSeq(rd.rest, n + 1, Len(rd.rest)),
                                   !.buf = IF r.dead THEN <<>> ELSE d.buf,
                                   !.lines = rd.lines \o SubSeq(d.texts, 1, r.done)]
               /\ DEVICES' = r.devs
               /\ sink' = r.out
               /\ last' = r.last
               /\ open' = r.open
               /\ thr' = IF r.dead
                         THEN [thr EXCEPT ![rd.port] = [Idle EXCEPT !.pc = "crashed"]]
                         ELSE thr
           drained(d) ==
               dispatched(d, Dispatch([devs |-> DEVICES, out |-> <<>>,
                                       open |-> open, last |-> last,
                                       done |-> 0, dead |-> FALSE], d.texts))
       IN  drained(Drain(Feed(rd.buf, SubSeq(rd.rest, 1, n)), <<>>))
    /\ UNCHANGED <<round, res>>

\* one reader on a port that delivers a stream in chunks of any sizes
InitReader ==
    /\ Started
    /\ \E stream \in Streams :
          rd = [port |-> "COM14", rest |-> stream, whole |-> stream,
                buf |-> <<>>, lines |-> <<>>]
    /\ res = [letter |-> "", acc |-> <<>>, n |-> 0, name |-> <<>>, num |-> None]

NextReader == \E n \in 1..Len(rd.rest) : reader_read(n)

SpecReader == InitReader /\ [][NextReader]_vars

\* ------------------------------------------------------------- the claims
\* The step handles `line` for device d: pre is the device's state before
\* (a fresh one for a new id), post the state after.
LastDev == int(last[2])
Pre(d)  == S(d)
Post(d) == DEVICES'[d]
\* the pitch the resolver's contract gives the tokens of the Pitch lines:
\* 12 * (octave + 1) + class for a name, the integer for a number, brought
\* into 0..127
TokenPitch(name) ==
    CASE name = <<"C","4">> -> 60
      [] name = <<"6","2">> -> 62
      [] name = LongNote    -> 127

Resolved(st, name) == clamp(TokenPitch(name) + st.octave_offset, 0, 127)

\* C1: no reachable state has both current_note and sustained_note set.
C1_AtMostOneVoice ==
    \A d \in DOMAIN DEVICES :
        ~(DEVICES[d].current_note # None /\ DEVICES[d].sustained_note # None)

\* C2: within the calls of every handled line, a note-on is only emitted
\* when no earlier note-on of the device is still unanswered by a note-off
\* of its pitch.
C2_NoStuckNotes ==
    [][\A i \in 1..Len(sink') :
          sink'[i].op = "note_on" =>
              Sounding(open[int(last'[2])], SubSeq(sink', 1, i - 1)) = <<>>]_vars

C2_Witness ==
    /\ RE_P(last)
    /\ Len(sink) = 2
    /\ sink[1].op = "note_off"
    /\ sink[2].op = "note_on"
    /\ open[LastDev] = <<sink[2].a>>

\* C4: SUS 1 sets sustain_on, moves a set current_note to sustained_note,
\* clears current_note and emits nothing.
C4_SustainOnPromotes ==
    [][(RE_B_SUS(last') /\ last'[4] = F_1) =>
          LET d == int(last'[2]) IN
          /\ Post(d).sustain_on = 1
          /\ Pre(d).current_note # None
                => Post(d).sustained_note = Pre(d).current_note
          /\ Post(d).current_note = None
          /\ sink' = <<>>]_vars

\* C5: PANIC leaves the state and makes the calls that SUS 0 would from the
\* same state: sustain_on 0, one note-off for a set sustained_note and none
\* otherwise, sustained_note cleared, current_note and note_hold untouched.
C5_PanicIsSustainOff ==
    [][RE_B_PAN(last') =>
          LET d == int(last'[2]) IN
          /\ Post(d) = button_SUS(Pre(d), 0).st
          /\ sink' = button_SUS(Pre(d), 0).out
          /\ Post(d).sustain_on = 0
          /\ Post(d).sustained_note = None
          /\ sink' = IF Pre(d).sustained_note # None
                     THEN <<[op |-> "note_off", a |-> Pre(d).sustained_note, b |-> 0]>>
                     ELSE <<>>
          /\ Post(d).current_note = Pre(d).current_note
          /\ Post(d).note_hold = Pre(d).note_hold]_vars

C5_Witness ==
    /\ RE_B_PAN(last)
    /\ Len(sink) = 1
    /\ sink[1].op = "note_off"
    /\ DEVICES[LastDev].note_hold = 1

\* C6: NH 1 -> 0 with sustain off stops a set current_note and clears it;
\* with sustain on it emits nothing and leaves both notes; SUS 0 then emits
\* the note-off of the sustained pitch, after which nothing sounds.
C6_NoteHoldRelease ==
    [][LET d == int(last'[2]) IN
       /\ (RE_B_NH(last') /\ last'[4] = F_0 /\ Pre(d).note_hold = 1) =>
             IF Pre(d).sustain_on = 0
             THEN /\ sink' = IF Pre(d).current_note # None
                             THEN <<[op |-> "note_off", a |-> Pre(d).current_note, b |-> 0]>>
                             ELSE <<>>
                  /\ Post(d).current_note = None
             ELSE /\ sink' = <<>>
                  /\ Post(d).current_note = Pre(d).current_note
                  /\ Post(d).sustained_note = Pre(d).sustained_note
       /\ (RE_B_SUS(last') /\ last'[4] = F_0 /\ Pre(d).sustained_note # None) =>
             /\ sink' = <<[op |-> "note_off", a |-> Pre(d).sustained_note, b |-> 0]>>
             /\ open'[d] = <<>>]_vars

C6_Witness ==
    /\ RE_B_NH(last)
    /\ last[4] = F_0
    /\ DEVICES[LastDev].sustain_on = 1
    /\ DEVICES[LastDev].sustained_note # None
    /\ open[LastDev] = <<DEVICES[LastDev].sustained_note>>
    /\ sink = <<>>

\* C7: a Pitch with note_hold 1 and sustain off: a pitch other than
\* current_note gives note-off of the old one (if set), then note-on of the
\* new, which becomes current_note; the same pitch changes and emits nothing.
C7_PitchNoSustain ==
    [][LET d == int(last'[2]) IN
       (RE_P(last') /\ Pre(d).note_hold = 1 /\ Pre(d).sustain_on = 0) =>
          LET note == Resolved(Pre(d), last'[3]) IN
          IF note # Pre(d).current_note
          THEN /\ Len(sink') = IF Pre(d).current_note # None THEN 2 ELSE 1
               /\ Pre(d).current_note # None =>
                     sink'[1] = [op |-> "note_off", a |-> Pre(d).current_note, b |-> 0]
               /\ sink'[Len(sink')].op = "note_on"
               /\ sink'[Len(sink')].a = note
               /\ Post(d) = [Pre(d) EXCEPT !.current_note = note]
          ELSE /\ sink' = <<>>
               /\ Post(d) = Pre(d)]_vars

\* C8: a Pitch with note_hold 1 and sustain on: a pitch other than
\* sustained_note gives note-off of the old one (if set), then note-on of the
\* new, which becomes sustained_note; the same pitch emits nothing; in every
\* case current_note is empty afterwards.
C8_PitchSustain ==
    [][LET d == int(last'[2]) IN
       (RE_P(last') /\ Pre(d).note_hold = 1 /\ Pre(d).sustain_on = 1) =>
          LET note == Resolved(Pre(d), last'[3]) IN
          /\ Post(d).current_note = None
          /\ IF note # Pre(d).sustained_note
             THEN /\ Len(sink') = IF Pre(d).sustained_note # None THEN 2 ELSE 1
                  /\ Pre(d).sustained_note # None =>
                        sink'[1] = [op |-> "note_off", a |-> Pre(d).sustained_note, b |-> 0]
                  /\ sink'[Len(sink')].op = "note_on"
                  /\ sink'[Len(sink')].a = note
                  /\ Post(d).sustained_note = note
             ELSE /\ sink' = <<>>
                  /\ Post(d).sustained_note = Pre(d).sustained_note]_vars

\* C9 as claimed: a note-on carries the last_volume of its device, and
\* last_volume is the value of the device's most recent Volume line (96
\* before the first), whatever vol_hold is.
C9_VelocityIsLastVolume ==
    [][LET d == int(last'[2]) IN
       /\ \A i \in 1..Len(sink') :
             sink'[i].op = "note_on" => sink'[i].b = Pre(d).last_volume
       /\ Post(d).last_volume = IF RE_V(last') THEN int(last'[3])
                                ELSE Pre(d).last_volume
       /\ \A e \in (DOMAIN DEVICES) \ {d} : DEVICES'[e] = DEVICES[e]]_vars

\* C9 as amended: the velocity is that value raised to at least 1.
C9_VelocityIsLastVolumeFrom1 ==
    [][LET d == int(last'[2]) IN
       /\ \A i \in 1..Len(sink') :
             sink'[i].op = "note_on" =>
                 sink'[i].b = IF Pre(d).last_volume = 0 THEN 1
                              ELSE Pre(d).last_volume
       /\ Post(d).last_volume = IF RE_V(last') THEN int(last'[3])
                                ELSE Pre(d).last_volume
       /\ \A e \in (DOMAIN DEVICES) \ {d} : DEVICES'[e] = DEVICES[e]]_vars

C9_Witness ==
    /\ RE_P(last)
    /\ Len(sink) = 1
    /\ sink[1].op = "note_on"
    /\ sink[1].b = 1
    /\ DEVICES[LastDev].last_volume = 0
    /\ \E e \in DOMAIN DEVICES : DEVICES[e].last_volume = 100

\* C10: with vol_hold 1, a Volume (controller 11) or Effect (its table id)
\* value is sent, once, exactly when the device's table has no value for the
\* controller or the stored one is at least 2 away; the table entry becomes
\* the value sent.  Nothing else changes a table: no line that sends no
\* controller change, and no line for another device.
C10_Deadband ==
    [][LET d    == int(last'[2])
           cc   == IF RE_V(last') THEN 11 ELSE CC_MAP[last'[3]]
           cand == IF RE_V(last') THEN int(last'[3]) ELSE int(last'[4])
           tbl  == Pre(d).last_cc_vals
       IN
       /\ ((RE_V(last') \/ RE_E(last')) /\ Pre(d).vol_hold = 1) =>
             IF cc \notin DOMAIN tbl
                  \/ cand - tbl[cc] >= 2
                  \/ tbl[cc] - cand >= 2
             THEN /\ sink' = <<[op |-> "cc", a |-> cc, b |-> cand]>>
                  /\ DOMAIN Post(d).last_cc_vals = (DOMAIN tbl) \cup {cc}
                  /\ Post(d).last_cc_vals[cc] = cand
                  /\ \A k \in (DOMAIN tbl) \ {cc} : Post(d).last_cc_vals[k] = tbl[k]
             ELSE /\ sink' = <<>>
                  /\ Post(d).last_cc_vals = tbl
       /\ Post(d).last_cc_vals # tbl => Len(sink') = 1 /\ sink'[1].op = "cc"
       /\ \A e \in (DOMAIN DEVICES) \ {d} :
             DEVICES'[e].last_cc_vals = DEVICES[e].last_cc_vals]_vars

C10_Witness ==
    /\ RE_V(last)
    /\ sink = <<>>
    /\ LET tbl == DEVICES[LastDev].last_cc_vals IN
       /\ DEVICES[LastDev].vol_hold = 1
       /\ DOMAIN tbl = {11, 74}
       /\ tbl[11] - int(last[3]) \in {1, -1}
       /\ \E e \in (DOMAIN DEVICES) \ {LastDev} :
             /\ DOMAIN DEVICES[e].last_cc_vals = {11, 74}
             /\ DEVICES[e].last_cc_vals[11] # tbl[11]
             /\ DEVICES[e].last_cc_vals[74] # tbl[74]

\* C11 as stated: with vol_hold 1 and controller 11 already sent once, a
\* Volume value less than 2 away from the previous Volume value of the device
\* (last_volume, which every Volume line sets) sends no controller change.
C11_QuietNearPrevious ==
    [][LET d == int(last'[2]) IN
       (/\ RE_V(last')
        /\ Pre(d).vol_hold = 1
        /\ 11 \in DOMAIN Pre(d).last_cc_vals
        /\ int(last'[3]) - Pre(d).last_volume \in {-1, 0, 1})
          => sink' = <<>>]_vars

\* C11: with vol_hold 1 and a value already sent on the controller, a Volume
\* or Effect value less than 2 away from the value last SENT on it sends
\* nothing and leaves that value as the reference for the values that follow,
\* so a run of values all within 2 of the last sent one sends nothing.
C11_QuietNearLastSent ==
    [][LET d    == int(last'[2])
           cc   == IF RE_V(last') THEN 11 ELSE CC_MAP[last'[3]]
           cand == IF RE_V(last') THEN int(last'[3]) ELSE int(last'[4])
           tbl  == Pre(d).last_cc_vals
       IN
       (/\ RE_V(last') \/ RE_E(last')
        /\ Pre(d).vol_hold = 1
        /\ cc \in DOMAIN tbl
        /\ cand - tbl[cc] \in {-1, 0, 1})
          => /\ sink' = <<>>
             /\ cc \in DOMAIN Post(d).last_cc_vals
             /\ Post(d).last_cc_vals[cc] = tbl[cc]]_vars

\* a second quiet value in a row: 101 sent, then 100 and now 102 unsent
C11_Witness ==
    /\ RE_V(last)
    /\ sink = <<>>
    /\ int(last[3]) = 102
    /\ LastDev \in DOMAIN DEVICES
    /\ DEVICES[LastDev].vol_hold = 1
    /\ 11 \in DOMAIN DEVICES[LastDev].last_cc_vals
    /\ DEVICES[LastDev].last_cc_vals[11] = 101

\* C12: a controller change is sent only by a Volume or Effect line handled
\* while vol_hold is 1, on controller 11 for Volume and on CUT 74, RESO 71,
\* PAN 10, REV 91, DEL 94, MOD 1 for Effect; an Effect line while vol_hold
\* is 0 sends nothing and changes no field; a VH line sends nothing and
\* changes vol_hold alone.
C12_VolumeHoldGate ==
    [][LET d == int(last'[2])
           q == last'[3]
           id == CASE q = <<"C","U","T">>     -> 74
                   [] q = <<"R","E","S","O">> -> 71
                   [] q = <<"P","A","N">>     -> 10
                   [] q = <<"R","E","V">>     -> 91
                   [] q = <<"D","E","L">>     -> 94
                   [] q = <<"M","O","D">>     -> 1
                   [] OTHER                   -> None
       IN
       /\ \A i \in DOMAIN sink' :
             sink'[i].op = "cc" =>
                /\ RE_V(last') \/ RE_E(last')
                /\ Pre(d).vol_hold = 1
                /\ sink'[i].a = IF RE_V(last') THEN 11 ELSE id
       /\ (RE_E(last') /\ Pre(d).vol_hold = 0) =>
             sink' = <<>> /\ Post(d) = Pre(d)
       /\ RE_B_VH(last') =>
             /\ sink' = <<>>
             /\ Post(d) = [Pre(d) EXCEPT !.vol_hold = int(last'[4])]]_vars

\* MOD sent on controller 1 after the other five parameters and Volume
C12_Witness ==
    /\ RE_E(last)
    /\ last[3] = <<"M","O","D">>
    /\ sink = <<[op |-> "cc", a |-> 1, b |-> 7]>>
    /\ DEVICES[LastDev].vol_hold = 1
    /\ DOMAIN DEVICES[LastDev].last_cc_vals = {1, 10, 11, 71, 74, 91, 94}

\* C13: every device's octave_offset stays within -24..36 whatever lines
\* arrive, and an OCT line with delta N (either sign, up to 99) sets it to
\* the old offset plus 12*N, brought back to -24 when below and to 36 when
\* above.
C13_OctaveSaturates ==
    [][/\ \A e \in DOMAIN DEVICES' :
             DEVICES'[e].octave_offset >= -24 /\ DEVICES'[e].octave_offset <= 36
       /\ RE_B_OCT(last') =>
             LET d == int(last'[2])
                 N == IF Head(last'[4]) = "-" THEN 0 - ParseNat(Tail(last'[4]))
                      ELSE IF Head(last'[4]) = "+" THEN ParseNat(Tail(last'[4]))
                      ELSE ParseNat(last'[4])
                 x == Pre(d).octave_offset + 12 * N
             IN  Post(d).octave_offset =
                     IF x < -24 THEN -24 ELSE IF x > 36 THEN 36 ELSE x]_vars

\* an unsigned 99 has taken one device to the top, -99 the other to the bottom
C13_Witness ==
    /\ last = <<F_B, <<"2">>, F_OCT, <<"-","9","9">>>>
    /\ DOMAIN DEVICES = {1, 2}
    /\ DEVICES[1].octave_offset = 36
    /\ DEVICES[2].octave_offset = -24

\* C14: an OCT line sends nothing and leaves current_note, sustained_note,
\* note_hold and sustain_on as they were (what sounds keeps sounding); every
\* note-on of a later Pitch line is for the token's pitch plus the offset in
\* force when the Pitch line arrives, kept within 0..127.
C14_OctaveNotRetroactive ==
    [][LET d == int(last'[2]) IN
       /\ RE_B_OCT(last') =>
             /\ sink' = <<>>
             /\ open' = open
             /\ Post(d).current_note = Pre(d).current_note
             /\ Post(d).sustained_note = Pre(d).sustained_note
             /\ Post(d).note_hold = Pre(d).note_hold
             /\ Post(d).sustain_on = Pre(d).sustain_on
       /\ RE_P(last') =>
             LET tok == IF last'[3] = <<"6","0">> THEN 60
                        ELSE IF last'[3] = <<"C","9">> THEN 120
                        ELSE 0
                 x   == tok + Pre(d).octave_offset
                 n   == IF x < 0 THEN 0 ELSE IF x > 127 THEN 127 ELSE x
             IN  \A i \in DOMAIN sink' :
                    sink'[i].op = "note_on" => sink'[i].a = n]_vars

\* NH 1, P 60, OCT +1, P 60: the 60 that sounded through the OCT line is
\* replaced by 72 only now
C14_Witness ==
    /\ last = <<F_P, <<"1">>, <<"6","0">>>>
    /\ DEVICES[1].octave_offset = 12
    /\ DEVICES[1].current_note = 72
    /\ sink = <<[op |-> "note_off", a |-> 60, b |-> 0],
                [op |-> "note_on", a |-> 72, b |-> 96]>>

\* C15: a line of none of the eight shapes (a value outside 0..127, a state
\* other than 0 and 1, an unknown Effect parameter or tag, a field too many
\* or too few, a malformed number, note or device id, a number that is not
\* in ASCII digits) sends nothing, changes no field of any device state and
\* creates no device state.
C15_RejectedLineInert ==
    [][last' \in BadLines \cup NonAsciiLines =>
          /\ sink' = <<>>
          /\ DEVICES' = DEVICES
          /\ open' = open]_vars

\* C16: every call on the MIDI output is in range: the pitch of a note-on
\* or note-off is within 0..127, the velocity of a note-on within 1..127,
\* the controller id and the value of a controller change within 0..127.
C16_SinkInRange ==
    \A i \in DOMAIN sink :
        /\ sink[i].a \in 0..127
        /\ sink[i].op = "note_on" => sink[i].b \in 1..127
        /\ sink[i].op = "cc" => sink[i].b \in 0..127

\* after V 0 and OCT -99, g#9 replaces a 0 by 103 with velocity 1
C16_Witness ==
    /\ RE_P(last)
    /\ DEVICES[1].last_volume = 0
    /\ DEVICES[1].octave_offset = -24
    /\ sink = <<[op |-> "note_off", a |-> 0, b |-> 0],
                [op |-> "note_on", a |-> 103, b |-> 1]>>

\* C17: a Pitch line for a device whose note_hold is 0 sends nothing and
\* leaves every field of the device as it was, so the pitch is not kept:
\* an NH 1 line sends no note-on, whatever Pitch lines came before it.
C17_PitchIgnoredWithoutHold ==
    [][LET d == int(last'[2]) IN
       /\ (RE_P(last') /\ Pre(d).note_hold = 0) =>
             /\ sink' = <<>>
             /\ Post(d) = Pre(d)
             /\ open' = open
       /\ (RE_B_NH(last') /\ last'[4] = F_1) =>
             /\ \A i \in DOMAIN sink' : sink'[i].op # "note_on"
             /\ Post(d).current_note = Pre(d).current_note]_vars

\* P 62 arrived with note_hold 0: nothing sent, and the note the device
\* still tracks is the 60 of an earlier line
C17_Witness ==
    /\ RE_P(last)
    /\ last[3] = <<"6","2">>
    /\ sink = <<>>
    /\ DEVICES[LastDev].note_hold = 0
    /\ DEVICES[LastDev].current_note = 60

\* C18: for a letter A-G of either case, an accidental # or b or none, and a
\* signed octave, note_name_to_number returns 12*(octave+1) plus the class
\* of the letter (C 0, D 2, E 4, F 5, G 7, A 9, B 11), plus 1 for # and
\* minus 1 for b, brought into 0..127; for a bare integer it returns the
\* integer brought into 0..127.
C18_NoteResolution ==
    res.num # None =>
        LET class == CASE res.letter \in {"C", "c"} -> 0
                       [] res.letter \in {"D", "d"} -> 2
                       [] res.letter \in {"E", "e"} -> 4
                       [] res.letter \in {"F", "f"} -> 5
                       [] res.letter \in {"G", "g"} -> 7
                       [] res.letter \in {"A", "a"} -> 9
                       [] res.letter \in {"B", "b"} -> 11
                       [] OTHER -> 0
            shift == IF res.acc = <<"#">> THEN 1
                     ELSE IF res.acc = <<"b">> THEN -1 ELSE 0
            x     == IF res.letter = "" THEN res.n
                     ELSE 12 * (res.n + 1) + class + shift
        IN  res.num = IF x < 0 THEN 0 ELSE IF x > 127 THEN 127 ELSE x

\* C19: whatever the sizes of the chunks read so far, the texts dispatched
\* are those of the complete lines among the bytes read (each run of bytes
\* that ends at a newline, decoded and stripped, the empty ones left out),
\* in order, the device states are those the handlers leave after these
\* texts, and the bytes after the last newline read are in the buffer,
\* not dispatched.  A text on which a handler raises is the last one
\* dispatched, whatever chunk brought it.
C19_LineAtomicity ==
    LET got   == SubSeq(rd.whole, 1, Len(rd.whole) - Len(rd.rest))
        nl    == {i \in DOMAIN got : got[i] = "\n"}
        from(i) == IF \E j \in nl : j < i
                   THEN 1 + CHOOSE j \in nl : j < i /\ \A k \in nl : k < i => k <= j
                   ELSE 1
        text(i) == strip(decode(SubSeq(got, from(i), i - 1)))
        full  == {i \in nl : text(i) # <<>>}
        pos   == [k \in 1..Cardinality(full) |->
                    CHOOSE i \in full : Cardinality({j \in full : j <= i}) = k]
        tail  == SubSeq(got, from(Len(got) + 1), Len(got))
        all   == [k \in DOMAIN pos |-> text(pos[k])]
        bad   == {k \in DOMAIN all :
                     LET line == Fields(all[k])
                     IN  /\ ~is_button(line)
                         /\ RE_P(line)
                         /\ Cardinality({i \in DOMAIN line[3] :
                                            IsDigit(line[3][i])}) > MaxStrDigits}
        upto  == IF bad = {} THEN Len(all)
                 ELSE CHOOSE k \in bad : \A j \in bad : k <= j
    IN  /\ rd.lines = SubSeq(all, 1, upto)
        /\ bad = {} => rd.buf = tail
        /\ DEVICES = Dispatch([devs |-> <<>>, out |-> <<>>,
                               open |-> [d \in DevIds |-> <<>>], last |-> <<>>,
                               done |-> 0, dead |-> FALSE],
                              SubSeq(all, 1, upto)).devs

\* both lines of the stream dispatched, by different reads, and the start
\* of a third, itself a well-formed Pitch line, kept in the buffer
C19_Witness ==
    /\ rd.rest = <<>>
    /\ rd.buf = <<"P",",","1",",","6">>
    /\ rd.lines = << <<"B",",","1",",","N","H",",","1">>,
                     <<"P",",","1",",","6","2">> >>
    /\ sink = <<[op |-> "note_on", a |-> 62, b |-> 96]>>
    /\ last = <<F_P, <<"1">>, <<"6","2">>>>

\* C20: a device's current_note and sustained_note, when set, each name a
\* pitch that is sounding (its note-on sent, no note-off for it since), and
\* right after a Pitch line handled with note_hold 1 the pitch it resolved
\* to is sounding.
C20_TrackedNotesSound ==
    /\ \A d \in DOMAIN DEVICES :
          /\ DEVICES[d].current_note # None =>
                \E i \in DOMAIN open[d] : open[d][i] = DEVICES[d].current_note
          /\ DEVICES[d].sustained_note # None =>
                \E i \in DOMAIN open[d] : open[d][i] = DEVICES[d].sustained_note
    /\ (RE_P(last) /\ DEVICES[LastDev].note_hold = 1) =>
          \E i \in DOMAIN open[LastDev] :
              open[LastDev][i] = Resolved(DEVICES[LastDev], last[3])

\* C21: a device whose note_hold and sustain_on are both 0 has no note
\* sounding (every note-on sent for it was followed by a note-off of the
\* same pitch), and a device whose sustain_on is 0 has no sustained_note.
C21_SilentWhenIdle ==
    \A d \in DOMAIN DEVICES :
        /\ (DEVICES[d].note_hold = 0 /\ DEVICES[d].sustain_on = 0) =>
              open[d] = <<>>
        /\ DEVICES[d].sustain_on = 0 => DEVICES[d].sustained_note = None

\* SUS 0 has just stopped the last note of an idle device, which still
\* tracks it in current_note, while the other device goes on sounding
C21_Witness ==
    /\ RE_B_SUS(last)
    /\ last[4] = F_0
    /\ Len(sink) = 1
    /\ sink[1].op = "note_off"
    /\ DEVICES[LastDev].note_hold = 0
    /\ DEVICES[LastDev].sustain_on = 0
    /\ DEVICES[LastDev].current_note = sink[1].a
    /\ open[LastDev] = <<>>
    /\ \E e \in DOMAIN DEVICES : open[e] # <<>>

\* C22: a device id has one DevState for all readers: the st of every
\* handler at work is the object the dict holds for its device; a DevState
\* enters the dict with note_hold 0, vol_hold 0, sustain_on 0, octave
\* offset 0, last_volume 96, no notes and no controller values; and when
\* the first two lines for a new id, NH 1 from one reader and VH 1 from the
\* other, have both been handled, the dict's DevState shows both.
C22_OneStatePerDevice ==
    [][/\ \A t \in Threads : ~thr'[t].own
       /\ \A d \in (DOMAIN DEVICES') \ (DOMAIN DEVICES) :
             DEVICES'[d] = [note_hold |-> 0, vol_hold |-> 0, sustain_on |-> 0,
                            octave_offset |-> 0, last_volume |-> 96,
                            current_note |-> None, sustained_note |-> None,
                            last_cc_vals |-> <<>>]
       /\ (/\ AllIdle'
           /\ round'.base = <<>>
           /\ {round'.batch[i].line : i \in DOMAIN round'.batch}
                 = {<<F_B, <<"1">>, F_NH, F_1>>, <<F_B, <<"1">>, F_VH, F_1>>})
          => /\ DEVICES'[1].note_hold = 1
             /\ DEVICES'[1].vol_hold = 1]_vars

\* C3: once both readers are between lines again, the dict and the MIDI
\* calls of the round are those of its lines handled in some serial order,
\* and no reader was ended by a handler (devices that existed at the round's
\* start).
C3_Serialized ==
    (/\ AllIdle
     /\ round.batch # <<>>
     /\ \A i \in 1..Len(round.batch) :
           int(round.batch[i].line[2]) \in DOMAIN round.base)
    => /\ \A t \in Threads : thr[t].pc # "crashed"
       /\ [devs |-> DEVICES, out |-> sink] \in SerialOutcomes

====
